---- MODULE Spec2Model ----
(***************************************************************************)
(* Session model of the multi tab text editor (src/src/main.rs).           *)
(*                                                                         *)
(* The state is the part of `struct Editor` that `Editor::update` reads    *)
(* and writes for the file messages: the buffer list `files`, the index    *)
(* `current` (0-based, as in the source) and `error`.  The futures handed  *)
(* to `Command::perform` (pick_file, save_file) are the in-flight `tasks`; *)
(* a task resolves to a result and that result is delivered to `update`    *)
(* as FileOpened / FileSaved at any later moment.                          *)
(***************************************************************************)
EXTENDS Integers, Sequences, FiniteSets, TLC

\* ------------------------------------------------------------------ bounds
\* Most buffers open at once (New and FileOpened are not taken beyond it).
MaxFiles == 3
\* Most futures in flight at once (Open, Save, SaveAs are not taken beyond it).
MaxTasks == 1
\* Longest text a buffer holds (an inserting Edit is not taken beyond it).
MaxLen == 1

\* ------------------------------------------------------------------ values
\* Option::None, for File::path and Editor::error.
None == "None"

\* The paths the file dialogs can return.
Paths == {"p1", "p2"}

\* enum Error; the io::ErrorKind carried by IOFailed is not distinguished.
DialogClosed == "DialogClosed"
IOFailed == "IOFailed"
Error == {DialogClosed, IOFailed}

\* Characters of a text: tab, carriage return, line feed, space.
TAB == "TAB"
CR == "CR"
LF == "LF"
SP == "SP"

\* What tokio::fs::read_to_string can return for a picked path.
DiskTexts == {<<CR, LF>>, <<CR>>}

\* The embedded sample (include_bytes! of the program's own source), cut
\* down to one line break.
SampleBytes == <<CR, LF>>

\* ------------------------------------------------------ verify_content
\* str::replace('\t', "    ")
RECURSIVE ReplaceTab(_)
ReplaceTab(s) ==
    IF s = <<>> THEN <<>>
    ELSE IF Head(s) = TAB THEN <<SP, SP, SP, SP>> \o ReplaceTab(Tail(s))
    ELSE <<Head(s)>> \o ReplaceTab(Tail(s))

\* str::replace("\r\n", "\n")
RECURSIVE ReplaceCRLF(_)
ReplaceCRLF(s) ==
    IF s = <<>> THEN <<>>
    ELSE IF Len(s) >= 2 /\ s[1] = CR /\ s[2] = LF
         THEN <<LF>> \o ReplaceCRLF(SubSeq(s, 3, Len(s)))
    ELSE <<Head(s)>> \o ReplaceCRLF(Tail(s))

\* str::replace('\r', "\n")
RECURSIVE ReplaceCR(_)
ReplaceCR(s) ==
    IF s = <<>> THEN <<>>
    ELSE IF Head(s) = CR THEN <<LF>> \o ReplaceCR(Tail(s))
    ELSE <<Head(s)>> \o ReplaceCR(Tail(s))

\* verify_content without `.replace("\r\n", "\n")`.
verify_content_NoCRLF(string) == ReplaceCR(ReplaceTab(string))

verify_content(string) == ReplaceCR(ReplaceCRLF(ReplaceTab(string)))

\* ------------------------------------------------------------------ File
File_empty == [path |-> None, content |-> <<>>, is_modified |-> FALSE]

File_sample ==
    [path |-> None, content |-> verify_content(SampleBytes), is_modified |-> TRUE]

\* Vec::swap_remove(index): the last element takes the place of the removed.
Remove_Swap(v, index) ==
    [k \in 1..(Len(v) - 1) |-> IF k = index + 1 THEN v[Len(v)] ELSE v[k]]

\* Vec::remove(index), index 0-based.
Remove(v, index) ==
    [k \in 1..(Len(v) - 1) |-> IF k <= index THEN v[k] ELSE v[k + 1]]

\* v[index] = x, index 0-based.
Set(v, index, x) == [v EXCEPT ![index + 1] = x]

\* ------------------------------------------------- text_editor::Action
\* A cursor movement, the insertion of a line break (Enter), a backspace.
Actions == {"Move", "Insert", "Backspace"}

\* Action::is_edit that takes every action for an edit.
is_edit_Always(action) == TRUE

is_edit(action) == action # "Move"

\* Content::perform followed by Content::text.
perform(content, action) ==
    CASE action = "Insert" -> Append(content, LF)
      [] action = "Backspace" ->
            IF content = <<>> THEN content ELSE SubSeq(content, 1, Len(content) - 1)
      [] OTHER -> content

\* ------------------------------------------------------------- futures
Ok(path, content) == [ok |-> TRUE, path |-> path, content |-> content, error |-> None]
Err(error) == [ok |-> FALSE, path |-> None, content |-> <<>>, error |-> error]

\* load_file(path): the read fails, or the text read is normalised.
load_file(path) ==
    {Err(IOFailed)} \cup {Ok(path, verify_content(raw)) : raw \in DiskTexts}

\* pick_file(): the dialog is cancelled, or the picked file is loaded.
pick_file == {Err(DialogClosed)} \cup UNION {load_file(p) : p \in Paths}

\* save_file(path, text): the result, whether the save dialog was shown
\* (`dialog`) and the writes done (`wrote`: none, or one of text at a path).
save_file(path, text) ==
    LET dialog == path = None
        targets == IF path # None THEN {path} ELSE Paths
        cancelled == IF path # None THEN {} ELSE
            {[ok |-> FALSE, path |-> None, error |-> DialogClosed, dialog |-> TRUE,
              wrote |-> <<>>]}
    IN  cancelled
        \cup {[ok |-> FALSE, path |-> None, error |-> IOFailed, dialog |-> dialog,
               wrote |-> <<>>] : p \in targets}
        \cup {[ok |-> TRUE, path |-> p, error |-> None, dialog |-> dialog,
               wrote |-> <<[path |-> p, text |-> text]>>] : p \in targets}

PickTask == [kind |-> "pick_file", path |-> None, text |-> <<>>]
SaveTask(path, text) == [kind |-> "save_file", path |-> path, text |-> text]

\* ------------------------------------------------------- theme registry
\* pub const THEMES: [Theme; 21], the themes the settings modal offers.
THEMES ==
    <<"Light", "Dark", "Dracula", "Nord", "SolarizedLight", "SolarizedDark",
      "GruvboxLight", "GruvboxDark", "CatppuccinLatte", "CatppuccinFrappe",
      "CatppuccinMacchiato", "CatppuccinMocha", "TokyoNight", "TokyoNightStorm",
      "TokyoNightLight", "KanagawaWave", "KanagawaDragon", "KanagawaLotus",
      "Moonfly", "Nightfly", "Oxocarbon">>

\* highlighter::Theme::ALL, the syntax themes the settings modal offers.
SyntaxThemes ==
    <<"SolarizedDark", "Base16Mocha", "Base16Ocean", "Base16Eighties",
      "InspiredGitHub">>

\* theme_to_key; the last arm is Theme::Custom(_).
theme_to_key(t) ==
    CASE t = "Light" -> "theme.light"
      [] t = "Dark" -> "theme.dark"
      [] t = "Dracula" -> "theme.dracula"
      [] t = "Nord" -> "theme.nord"
      [] t = "SolarizedLight" -> "theme.solarized.light"
      [] t = "SolarizedDark" -> "theme.solarized.dark"
      [] t = "GruvboxLight" -> "theme.gruvbox.light"
      [] t = "GruvboxDark" -> "theme.gruvbox.dark"
      [] t = "CatppuccinLatte" -> "theme.catppuccin.latte"
      [] t = "CatppuccinFrappe" -> "theme.catppuccin.frappe"
      [] t = "CatppuccinMacchiato" -> "theme.catppuccin.macchiato"
      [] t = "CatppuccinMocha" -> "theme.catppuccin.mocha"
      [] t = "TokyoNight" -> "theme.tokionight"
      [] t = "TokyoNightStorm" -> "theme.tokionight.storm"
      [] t = "TokyoNightLight" -> "theme.tokyonight.light"
      [] t = "KanagawaWave" -> "theme.kanagawa.wave"
      [] t = "KanagawaDragon" -> "theme.kanagawa.dragon"
      [] t = "KanagawaLotus" -> "theme.kanagawa.lotus"
      [] t = "Moonfly" -> "theme.moonfly"
      [] t = "Nightfly" -> "theme.nightfly"
      [] t = "Oxocarbon" -> "theme.oxocarbon"
      [] OTHER -> "theme.unknown"

\* key_to_theme
key_to_theme(key) ==
    CASE key = "theme.dark" -> "Dark"
      [] key = "theme.dracula" -> "Dracula"
      [] key = "theme.nord" -> "Nord"
      [] key = "theme.solarized.light" -> "SolarizedLight"
      [] key = "theme.solarized.dark" -> "SolarizedDark"
      [] key = "theme.gruvbox.light" -> "GruvboxLight"
      [] key = "theme.gruvbox.dark" -> "GruvboxDark"
      [] key = "theme.catppuccin.latte" -> "CatppuccinLatte"
      [] key = "theme.catppuccin.frappe" -> "CatppuccinFrappe"
      [] key = "theme.catppuccin.macchiato" -> "CatppuccinMacchiato"
      [] key = "theme.catppuccin.mocha" -> "CatppuccinMocha"
      [] key = "theme.tokyonight" -> "TokyoNight"
      [] key = "theme.tokyonight.storm" -> "TokyoNightStorm"
      [] key = "theme.tokyonight.light" -> "TokyoNightLight"
      [] key = "theme.kanagawa.wave" -> "KanagawaWave"
      [] key = "theme.kanagawa.dragon" -> "KanagawaDragon"
      [] key = "theme.kanagawa.lotus" -> "KanagawaLotus"
      [] key = "theme.moonfly" -> "Moonfly"
      [] key = "theme.nightfly" -> "Nightfly"
      [] key = "theme.oxocarbon" -> "Oxocarbon"
      [] OTHER -> "Light"

\* syntax_theme_to_key
syntax_theme_to_key(t) ==
    CASE t = "SolarizedDark" -> "syntax.solarized.dark"
      [] t = "Base16Mocha" -> "syntax.base16.mocha"
      [] t = "Base16Ocean" -> "syntax.base16.ocean"
      [] t = "Base16Eighties" -> "syntax.base16.eighties"
      [] t = "InspiredGitHub" -> "syntax.inspired-github"

\* key_to_syntax_theme with one key spelt otherwise than syntax_theme_to_key
\* writes it.
key_to_syntax_theme_Misspelt(key) ==
    CASE key = "syntax.solarized.dark" -> "SolarizedDark"
      [] key = "syntax.base16.mocca" -> "Base16Mocha"
      [] key = "syntax.base16.ocean" -> "Base16Ocean"
      [] key = "syntax.inspired-github" -> "InspiredGitHub"
      [] OTHER -> "Base16Eighties"

\* key_to_syntax_theme
key_to_syntax_theme(key) ==
    CASE key = "syntax.solarized.dark" -> "SolarizedDark"
      [] key = "syntax.base16.mocha" -> "Base16Mocha"
      [] key = "syntax.base16.ocean" -> "Base16Ocean"
      [] key = "syntax.inspired-github" -> "InspiredGitHub"
      [] OTHER -> "Base16Eighties"

\* ------------------------------------------------------- settings store
\* The configuration file: absent; present but not readable as a string
\* (read_to_string fails); present with text that does not parse; or present
\* with a SettingsState of two keys.
ConfigFile(state, theme_key, syntax_key) ==
    [state |-> state, theme |-> theme_key, syntax_theme |-> syntax_key]

AbsentFile == ConfigFile("absent", "", "")
UnreadableFile == ConfigFile("unreadable", "", "")
CorruptFile == ConfigFile("corrupt", "", "")

\* The files a first start may find: none, the three broken ones, one written
\* by the program and one with keys the registry does not know.
ConfigFiles ==
    {AbsentFile, UnreadableFile, CorruptFile,
     ConfigFile("valid", "theme.nord", "syntax.base16.mocha"),
     ConfigFile("valid", "theme.none", "syntax.none")}

\* The initialiser of the static CONFIG: Option<SettingsState>, or a panic
\* (`read_to_string(config_path).unwrap()`).
CONFIG(file) ==
    [panic |-> file.state = "unreadable",
     some |-> file.state = "valid",
     theme |-> file.theme,
     syntax_theme |-> file.syntax_theme]

\* The (theme, syntax) pair Editor::new starts with, given CONFIG.
Editor_new(config) ==
    IF config.some
    THEN [theme |-> key_to_theme(config.theme),
          syntax |-> key_to_syntax_theme(config.syntax_theme)]
    ELSE [theme |-> "Dark", syntax |-> "Base16Eighties"]

\* invoke_config_update(state): the file after std::fs::write, which
\* succeeds (ok) or fails and is only logged.
invoke_config_update(file, th, hl, ok) ==
    IF ok THEN ConfigFile("valid", theme_to_key(th), syntax_theme_to_key(hl))
    ELSE file

\* Nothing written yet, or the last write failed.
NotPersisted == [set |-> FALSE, theme |-> "", syntax |-> ""]

\* ------------------------------------------------------------------ state
VARIABLES files, current, error, tasks, last

\* Editor::theme and Editor::highlighter_theme; the configuration file on
\* disk; the process (not started, running, ended by a panic); and the
\* themes in effect when the configuration was last written with success.
VARIABLES theme, highlighter_theme, config_file, proc, persisted

\* The string handed to verify_content, and the results of applying it, and
\* applying it again to its own result.
VARIABLES raw, outs

\* What the file messages of Editor::update leave alone.
aside == <<theme, highlighter_theme, config_file, proc, persisted, raw, outs>>

vars == <<files, current, error, tasks, last, aside>>

\* The message `update` has just handled, with its index argument and the
\* length of files, the value of current and the error (`err`) before it was
\* handled.  `direct`
\* says of a completion (FileOpened, FileSaved) that it answers the message
\* handled just before it, no other message having come in between.
Handled(msg, index, direct) ==
    [msg |-> msg, index |-> index, len |-> Len(files), cur |-> current,
     direct |-> direct, err |-> error]

\* The future k is the one the message handled last has started.
Direct(k) ==
    /\ k = Len(tasks) - 1
    /\ last.msg \in {"Open", "Save", "SaveAs"}

\* files, current and error as Editor::new builds them.
SessionInit ==
    /\ files = <<File_sample>>
    /\ current = 0
    /\ error = None
    /\ tasks = <<>>
    /\ last = [msg |-> "new", index |-> 0, len |-> 0, cur |-> 0, direct |-> FALSE,
               err |-> None]

\* The editor running after a start that found no configuration file.
SettingsIdle ==
    /\ config_file = AbsentFile
    /\ theme = Editor_new(CONFIG(AbsentFile)).theme
    /\ highlighter_theme = Editor_new(CONFIG(AbsentFile)).syntax
    /\ proc = "up"
    /\ persisted = NotPersisted

\* No string under normalisation.
VerifyIdle ==
    /\ raw = <<>>
    /\ outs = <<>>

\* Editor::new
Init ==
    /\ SessionInit
    /\ SettingsIdle
    /\ VerifyIdle


\* --------------------------------------------------------- Editor::update
\* `assert!(self.current < self.files.len())`: a handler that starts with it
\* goes on only when it holds.
InBounds == current < Len(files)

\* Message::Edit(action)
Edit(action) ==
    /\ InBounds
    /\ is_edit(action) /\ action = "Insert" => Len(files[current + 1].content) < MaxLen
    /\ files' = Set(files, current,
                    [files[current + 1] EXCEPT
                        !.is_modified = files[current + 1].is_modified \/ is_edit(action),
                        !.content = perform(files[current + 1].content, action)])
    /\ error' = None
    /\ last' = Handled(IF is_edit(action) THEN "Edit" ELSE "Edit(move)", 0, FALSE)
    /\ UNCHANGED <<current, tasks>>
    /\ UNCHANGED aside

\* Message::Open
Open ==
    /\ Len(tasks) < MaxTasks
    /\ tasks' = Append(tasks, PickTask)
    /\ last' = Handled("Open", 0, FALSE)
    /\ UNCHANGED <<files, current, error>>
    /\ UNCHANGED aside

\* Message::FileOpened(Ok) without `self.current = self.files.len() - 1`.
FileOpenedOk_KeepsCurrent(k, r) ==
    /\ tasks[k + 1].kind = "pick_file"
    /\ r \in pick_file /\ r.ok
    /\ InBounds
    /\ Len(files) < MaxFiles
    /\ files' = Append(files, [File_empty EXCEPT !.path = r.path, !.content = r.content])
    /\ tasks' = Remove(tasks, k)
    /\ last' = Handled("FileOpened(Ok)", 0, Direct(k))
    /\ UNCHANGED <<current, error>>
    /\ UNCHANGED aside

\* Message::FileOpened(Ok) that loads the file into the current buffer
\* instead of pushing a new one.
FileOpenedOk_IntoCurrent(k, r) ==
    /\ tasks[k + 1].kind = "pick_file"
    /\ r \in pick_file /\ r.ok
    /\ InBounds
    /\ Len(files) < MaxFiles
    /\ files' = Set(files, current,
                    [File_empty EXCEPT !.path = r.path, !.content = r.content])
    /\ tasks' = Remove(tasks, k)
    /\ last' = Handled("FileOpened(Ok)", 0, Direct(k))
    /\ UNCHANGED <<current, error>>
    /\ UNCHANGED aside

\* Message::FileOpened(Ok((path, content))), the result r of the future k.
FileOpenedOk(k, r) ==
    /\ tasks[k + 1].kind = "pick_file"
    /\ r \in pick_file /\ r.ok
    /\ InBounds
    /\ Len(files) < MaxFiles
    /\ files' = Append(files, [File_empty EXCEPT !.path = r.path, !.content = r.content])
    /\ current' = Len(files') - 1
    /\ tasks' = Remove(tasks, k)
    /\ last' = Handled("FileOpened(Ok)", 0, Direct(k))
    /\ UNCHANGED error
    /\ UNCHANGED aside

\* Message::FileOpened(Err(error)), the result r of the future k.
FileOpenedErr(k, r) ==
    /\ tasks[k + 1].kind = "pick_file"
    /\ r \in pick_file /\ ~r.ok
    /\ error' = r.error
    /\ tasks' = Remove(tasks, k)
    /\ last' = Handled("FileOpened(Err)", 0, Direct(k))
    /\ UNCHANGED <<files, current>>
    /\ UNCHANGED aside

\* Message::New that pushes the buffer and leaves current where it was.
New_KeepsCurrent ==
    /\ Len(files) < MaxFiles
    /\ files' = Append(files, File_empty)
    /\ last' = Handled("New", 0, FALSE)
    /\ UNCHANGED <<current, error, tasks>>
    /\ UNCHANGED aside

\* Message::New
New ==
    /\ Len(files) < MaxFiles
    /\ files' = Append(files, File_empty)
    /\ current' = Len(files') - 1
    /\ last' = Handled("New", 0, FALSE)
    /\ UNCHANGED <<error, tasks>>
    /\ UNCHANGED aside

\* Message::Save that asks for a path every time, as Message::SaveAs does.
Save_AlwaysAsks ==
    /\ InBounds
    /\ Len(tasks) < MaxTasks
    /\ tasks' = Append(tasks, SaveTask(None, files[current + 1].content))
    /\ last' = Handled("Save", 0, FALSE)
    /\ UNCHANGED <<files, current, error>>
    /\ UNCHANGED aside

\* Message::Save
Save ==
    /\ InBounds
    /\ Len(tasks) < MaxTasks
    /\ tasks' = Append(tasks, SaveTask(files[current + 1].path, files[current + 1].content))
    /\ last' = Handled("Save", 0, FALSE)
    /\ UNCHANGED <<files, current, error>>
    /\ UNCHANGED aside

\* Message::SaveAs
SaveAs ==
    /\ InBounds
    /\ Len(tasks) < MaxTasks
    /\ tasks' = Append(tasks, SaveTask(None, files[current + 1].content))
    /\ last' = Handled("SaveAs", 0, FALSE)
    /\ UNCHANGED <<files, current, error>>
    /\ UNCHANGED aside

\* Message::FileSaved(Ok) that clears is_modified and forgets the path.
FileSavedOk_NoPath(k, r) ==
    /\ tasks[k + 1].kind = "save_file"
    /\ r \in save_file(tasks[k + 1].path, tasks[k + 1].text) /\ r.ok
    /\ InBounds
    /\ files' = Set(files, current, [files[current + 1] EXCEPT !.is_modified = FALSE])
    /\ tasks' = Remove(tasks, k)
    /\ last' = Handled("FileSaved(Ok)", 0, Direct(k))
    /\ UNCHANGED <<current, error>>
    /\ UNCHANGED aside

\* Message::FileSaved(Ok) that applies the result to the first buffer.
FileSavedOk_FirstBuffer(k, r) ==
    /\ tasks[k + 1].kind = "save_file"
    /\ r \in save_file(tasks[k + 1].path, tasks[k + 1].text) /\ r.ok
    /\ InBounds
    /\ files' = Set(files, 0, [files[1] EXCEPT !.path = r.path, !.is_modified = FALSE])
    /\ tasks' = Remove(tasks, k)
    /\ last' = Handled("FileSaved(Ok)", 0, Direct(k))
    /\ UNCHANGED <<current, error>>
    /\ UNCHANGED aside

\* Message::FileSaved(Ok) that also clears the error.
FileSavedOk_ClearsError(k, r) ==
    /\ tasks[k + 1].kind = "save_file"
    /\ r \in save_file(tasks[k + 1].path, tasks[k + 1].text) /\ r.ok
    /\ InBounds
    /\ files' = Set(files, current,
                    [files[current + 1] EXCEPT !.path = r.path, !.is_modified = FALSE])
    /\ error' = None
    /\ tasks' = Remove(tasks, k)
    /\ last' = Handled("FileSaved(Ok)", 0, Direct(k))
    /\ UNCHANGED current
    /\ UNCHANGED aside

\* Message::FileSaved(Ok(path)), the result r of the future k.
FileSavedOk(k, r) ==
    /\ tasks[k + 1].kind = "save_file"
    /\ r \in save_file(tasks[k + 1].path, tasks[k + 1].text) /\ r.ok
    /\ InBounds
    /\ files' = Set(files, current,
                    [files[current + 1] EXCEPT !.path = r.path, !.is_modified = FALSE])
    /\ tasks' = Remove(tasks, k)
    /\ last' = Handled("FileSaved(Ok)", 0, Direct(k))
    /\ UNCHANGED <<current, error>>
    /\ UNCHANGED aside

\* Message::FileSaved(Err) that keeps an error already shown.
FileSavedErr_KeepsFirstError(k, r) ==
    /\ tasks[k + 1].kind = "save_file"
    /\ r \in save_file(tasks[k + 1].path, tasks[k + 1].text) /\ ~r.ok
    /\ error' = IF error = None THEN r.error ELSE error
    /\ tasks' = Remove(tasks, k)
    /\ last' = Handled("FileSaved(Err)", 0, Direct(k))
    /\ UNCHANGED <<files, current>>
    /\ UNCHANGED aside

\* Message::FileSaved(Err(error)), the result r of the future k.
FileSavedErr(k, r) ==
    /\ tasks[k + 1].kind = "save_file"
    /\ r \in save_file(tasks[k + 1].path, tasks[k + 1].text) /\ ~r.ok
    /\ error' = r.error
    /\ tasks' = Remove(tasks, k)
    /\ last' = Handled("FileSaved(Err)", 0, Direct(k))
    /\ UNCHANGED <<files, current>>
    /\ UNCHANGED aside

\* Message::Close with `self.files.len() - 1` for `self.files.len() - 2`.
CloseEffect_OffByOne(f, c) ==
    LET should_remove == ~(c = 0 /\ Len(f) = 1)
        cur == IF c # 0 THEN 0
               ELSE IF Len(f) = 1 THEN c
               ELSE Len(f) - 1
    IN  [files |-> IF should_remove THEN Remove(f, c) ELSE Set(f, cur, File_empty),
         current |-> cur]

\* Message::Close without the `self.files.len() == 1` branch.
CloseEffect_AlwaysRemove(f, c) ==
    LET cur == IF c # 0 THEN 0 ELSE IF Len(f) = 1 THEN 0 ELSE Len(f) - 2
    IN  [files |-> Remove(f, c), current |-> cur]

\* Message::Close that leaves the only buffer as it is.
CloseEffect_NoReset(f, c) ==
    LET should_remove == ~(c = 0 /\ Len(f) = 1)
        cur == IF c # 0 THEN 0
               ELSE IF Len(f) = 1 THEN c
               ELSE Len(f) - 2
    IN  [files |-> IF should_remove THEN Remove(f, c) ELSE f,
         current |-> cur]

\* Message::Close that moves the focus to the first buffer in every branch.
CloseEffect_FocusFirst(f, c) ==
    LET should_remove == ~(c = 0 /\ Len(f) = 1)
        cur == 0
    IN  [files |-> IF should_remove THEN Remove(f, c) ELSE Set(f, cur, File_empty),
         current |-> cur]

\* The body of Message::Close on files f and current c: the new files and current.
CloseEffect(f, c) ==
    LET remove == c
        should_remove == ~(c = 0 /\ Len(f) = 1)
        cur == IF c # 0 THEN 0
               ELSE IF Len(f) = 1 THEN c
               ELSE Len(f) - 2
    IN  [files |-> IF should_remove THEN Remove(f, remove) ELSE Set(f, cur, File_empty),
         current |-> cur]

\* Message::Close
Close ==
    /\ InBounds
    /\ files' = CloseEffect(files, current).files
    /\ current' = CloseEffect(files, current).current
    /\ last' = Handled("Close", current, FALSE)
    /\ UNCHANGED <<error, tasks>>
    /\ UNCHANGED aside

\* Message::CloseIndex that removes the current buffer, as Message::Close does.
CloseIndexEffect_RemovesCurrent(f, c, index) ==
    LET should_remove == ~(c = index /\ Len(f) = 1)
        cur == IF c # index THEN 0
               ELSE IF Len(f) = 1 THEN c
               ELSE Len(f) - 2
    IN  [files |-> IF should_remove THEN Remove(f, c) ELSE Set(f, cur, File_empty),
         current |-> cur]

\* Message::CloseIndex that keeps the focus on the current buffer when
\* another one is closed.
CloseIndexEffect_KeepsFocus(f, c, index) ==
    LET should_remove == ~(c = index /\ Len(f) = 1)
        cur == IF c # index THEN (IF index < c THEN c - 1 ELSE c)
               ELSE IF Len(f) = 1 THEN c
               ELSE Len(f) - 2
    IN  [files |-> IF should_remove THEN Remove(f, index) ELSE Set(f, cur, File_empty),
         current |-> cur]

\* The body of Message::CloseIndex(index) on files f and current c.
CloseIndexEffect(f, c, index) ==
    LET should_remove == ~(c = index /\ Len(f) = 1)
        cur == IF c # index THEN 0
               ELSE IF Len(f) = 1 THEN c
               ELSE Len(f) - 2
    IN  [files |-> IF should_remove THEN Remove(f, index) ELSE Set(f, cur, File_empty),
         current |-> cur]

\* Message::CloseIndex(index)
CloseIndex(index) ==
    /\ InBounds
    /\ files' = CloseIndexEffect(files, current, index).files
    /\ current' = CloseIndexEffect(files, current, index).current
    /\ last' = Handled("CloseIndex", index, FALSE)
    /\ UNCHANGED <<error, tasks>>
    /\ UNCHANGED aside

\* Message::SelectFile that ignores an index past the end of files.
SelectFile_Validated(index) ==
    /\ current' = IF index < Len(files) THEN index ELSE current
    /\ last' = Handled("SelectFile", index, FALSE)
    /\ UNCHANGED <<files, error, tasks>>
    /\ UNCHANGED aside

\* Message::SelectFile(index)
SelectFile(index) ==
    /\ current' = index
    /\ last' = Handled("SelectFile", index, FALSE)
    /\ UNCHANGED <<files, error, tasks>>
    /\ UNCHANGED aside

\* The indices the rendered tab list offers (Editor::view builds one tab,
\* with its SelectFile(index) and CloseIndex(index), per element of files).
TabIndices == 0..(Len(files) - 1)

TaskIndices == 0..(Len(tasks) - 1)

Next ==
    \/ \E action \in Actions : Edit(action)
    \/ Open
    \/ \E k \in TaskIndices : \E r \in pick_file : FileOpenedOk(k, r)
    \/ \E k \in TaskIndices : \E r \in pick_file : FileOpenedErr(k, r)
    \/ New
    \/ Save
    \/ SaveAs
    \/ \E k \in TaskIndices :
         \E r \in save_file(tasks[k + 1].path, tasks[k + 1].text) : FileSavedOk(k, r)
    \/ \E k \in TaskIndices :
         \E r \in save_file(tasks[k + 1].path, tasks[k + 1].text) : FileSavedErr(k, r)
    \/ Close
    \/ \E index \in TabIndices : CloseIndex(index)
    \/ \E index \in TabIndices : SelectFile(index)

Spec == Init /\ [][Next]_vars

\* ------------------------------------------ SelectFile with any index
\* The values of the usize a SelectFile message can carry, up to the most
\* buffers there can be: the handler taken as a function of its message, not
\* only of the messages the rendered tabs send.
AnyIndex == 0..MaxFiles

NextAnyIndex ==
    \/ \E action \in Actions : Edit(action)
    \/ Open
    \/ \E k \in TaskIndices : \E r \in pick_file : FileOpenedOk(k, r)
    \/ \E k \in TaskIndices : \E r \in pick_file : FileOpenedErr(k, r)
    \/ New
    \/ Save
    \/ SaveAs
    \/ \E k \in TaskIndices :
         \E r \in save_file(tasks[k + 1].path, tasks[k + 1].text) : FileSavedOk(k, r)
    \/ \E k \in TaskIndices :
         \E r \in save_file(tasks[k + 1].path, tasks[k + 1].text) : FileSavedErr(k, r)
    \/ Close
    \/ \E index \in TabIndices : CloseIndex(index)
    \/ \E index \in AnyIndex : SelectFile(index)

SpecAnyIndex == Init /\ [][NextAnyIndex]_vars

\* ----------------------------------------------------- settings, themes
\* The variables of the session, which the theme messages leave alone.
session == <<files, current, error, tasks>>

\* The process starts: the static CONFIG is initialised from the file and
\* Editor::new picks the themes, or the initialiser panics.
Start ==
    /\ proc = "down"
    /\ LET config == CONFIG(config_file)
       IN  IF config.panic
           THEN /\ proc' = "panicked"
                /\ UNCHANGED <<theme, highlighter_theme>>
           ELSE /\ proc' = "up"
                /\ theme' = Editor_new(config).theme
                /\ highlighter_theme' = Editor_new(config).syntax
    /\ files' = <<File_sample>>
    /\ current' = 0
    /\ error' = None
    /\ tasks' = <<>>
    /\ last' = Handled("Start", 0, FALSE)
    /\ UNCHANGED <<config_file, persisted, raw, outs>>

\* The window is closed and the process ends.
Exit ==
    /\ proc = "up"
    /\ proc' = "down"
    /\ last' = Handled("Exit", 0, FALSE)
    /\ UNCHANGED <<session, theme, highlighter_theme, config_file, persisted, raw, outs>>

\* Message::SelectTheme(theme), the write of the configuration succeeding or not.
SelectTheme(t, ok) ==
    /\ proc = "up"
    /\ theme' = t
    /\ config_file' = invoke_config_update(config_file, t, highlighter_theme, ok)
    /\ persisted' = IF ok THEN [set |-> TRUE, theme |-> t, syntax |-> highlighter_theme]
                    ELSE NotPersisted
    /\ last' = Handled("SelectTheme", 0, FALSE)
    /\ UNCHANGED <<session, highlighter_theme, proc, raw, outs>>

\* Message::SelectSyntaxTheme(theme), the write succeeding or not.
SelectSyntaxTheme(t, ok) ==
    /\ proc = "up"
    /\ highlighter_theme' = t
    /\ config_file' = invoke_config_update(config_file, theme, t, ok)
    /\ persisted' = IF ok THEN [set |-> TRUE, theme |-> theme, syntax |-> t]
                    ELSE NotPersisted
    /\ last' = Handled("SelectSyntaxTheme", 0, FALSE)
    /\ UNCHANGED <<session, theme, proc, raw, outs>>

\* Before the first start: any configuration file, no editor yet.
InitSettings ==
    /\ SessionInit
    /\ VerifyIdle
    /\ config_file \in ConfigFiles
    /\ proc = "down"
    /\ theme = ""
    /\ highlighter_theme = ""
    /\ persisted = NotPersisted

NextSettings ==
    \/ Start
    \/ Exit
    \/ \E i \in 1..Len(THEMES) : \E ok \in BOOLEAN : SelectTheme(THEMES[i], ok)
    \/ \E i \in 1..Len(SyntaxThemes) : \E ok \in BOOLEAN :
         SelectSyntaxTheme(SyntaxThemes[i], ok)

SpecSettings == InitSettings /\ [][NextSettings]_vars

\* ------------------------------------------------- verify_content alone
\* Longest string handed to verify_content.
MaxStr == 3
\* Most applications of verify_content in a row.
MaxApply == 2

\* The characters of the strings: the three verify_content looks for, the
\* space it writes, and a letter.
Chars == {TAB, CR, LF, SP, "a"}

Strings == UNION {[1..n -> Chars] : n \in 0..MaxStr}

\* verify_content applied to raw, then to its own result.
Verify ==
    /\ Len(outs) < MaxApply
    /\ outs' = Append(outs, verify_content(IF outs = <<>> THEN raw ELSE outs[Len(outs)]))
    /\ UNCHANGED <<session, last, theme, highlighter_theme, config_file, proc,
                   persisted, raw>>

InitVerify ==
    /\ SessionInit
    /\ SettingsIdle
    /\ raw \in Strings
    /\ outs = <<>>

NextVerify == Verify

SpecVerify == InitVerify /\ [][NextVerify]_vars

\* ------------------------------------------------------------------ claims
\* files' is files without its element at the 0-based index i.
Dropped(i) ==
    /\ Len(files') = Len(files) - 1
    /\ \A j \in 1..Len(files') : files'[j] = files[IF j <= i THEN j ELSE j + 1]

\* C1: in every reachable state current is an index of files
\* (0 <= current < files.len()), so no assert! of update fails and no
\* files[current] access is out of bounds.
C1_CurrentInBounds == 0 <= current /\ current < Len(files)

\* Close of the first of several buffers has moved current to the last index.
C1_Witness ==
    /\ last.msg = "Close"
    /\ last.len >= 3
    /\ last.cur = 0
    /\ current = Len(files) - 1

\* C2: the buffer list is never empty.
C2_NeverEmpty == Len(files) >= 1

\* A save has failed in a session that closes have left with one fresh buffer.
C2_Witness ==
    /\ last.msg = "FileSaved(Err)"
    /\ files = <<[path |-> None, content |-> <<>>, is_modified |-> FALSE]>>

\* C3: Close, and CloseIndex(0), of the only buffer leave one buffer, a fresh
\* empty one (no path, empty content, not modified), and current = 0.
C3_CloseOnlyBuffer ==
    (last.msg \in {"Close", "CloseIndex"} /\ last.len = 1)
        => /\ Len(files) = 1
           /\ current = 0
           /\ files[1] = [path |-> None, content |-> <<>>, is_modified |-> FALSE]

\* The only buffer has been closed and an empty one stands in its place.
C3_Witness ==
    /\ last.msg = "Close"
    /\ last.len = 1
    /\ files = <<[path |-> None, content |-> <<>>, is_modified |-> FALSE]>>

\* C4: with more than one buffer, Close removes exactly the current buffer
\* and CloseIndex(i) exactly the buffer at i; the length drops by one and
\* current is in bounds afterwards.
C4_CloseRemovesTarget ==
    [][ (last'.msg \in {"Close", "CloseIndex"} /\ Len(files) > 1)
        => /\ Dropped(IF last'.msg = "Close" THEN current ELSE last'.index)
           /\ 0 <= current' /\ current' < Len(files') ]_vars

\* CloseIndex has removed a buffer that was neither current nor the first.
C4_Witness ==
    /\ last.msg = "CloseIndex"
    /\ last.len = 3
    /\ last.index = 2
    /\ last.cur = 1
    /\ Len(files) = 2

\* C5: CloseIndex(i) with i # current sets current to 0 and removes exactly
\* the buffer at i.
C5_CloseOtherSnapsToZero ==
    [][ (last'.msg = "CloseIndex" /\ last'.index # current)
        => /\ current' = 0
           /\ Dropped(last'.index) ]_vars

\* From two buffers with current = 1, CloseIndex(0) has left the former
\* second buffer alone, with current = 0.
C5_Witness ==
    /\ last.msg = "CloseIndex"
    /\ last.len = 2
    /\ last.cur = 1
    /\ last.index = 0
    /\ Len(files) = 1
    /\ current = 0

\* C6: CloseIndex(current) and Close give the same buffer list and the same
\* current from every state.
C6_CloseIndexCurrentIsClose ==
    CloseIndexEffect(files, current, current) = CloseEffect(files, current)

\* files' is files with one buffer b added at the end, nothing else changed.
Pushed(b) ==
    /\ Len(files') = Len(files) + 1
    /\ \A j \in 1..Len(files) : files'[j] = files[j]
    /\ files'[Len(files')] = b

\* C7: New appends one empty buffer (no path, empty content, not modified),
\* makes it current, and leaves the other buffers and the error as they were.
C7_NewAppendsEmpty ==
    [][ last'.msg = "New"
        => /\ Pushed([path |-> None, content |-> <<>>, is_modified |-> FALSE])
           /\ current' = Len(files)
           /\ error' = error ]_vars

\* New has been handled with two buffers open and an error on display.
C7_Witness ==
    /\ last.msg = "New"
    /\ last.len = 2
    /\ last.cur = 0
    /\ error # None
    /\ current = 2

\* C8: FileOpened(Ok(path, content)) appends one unmodified buffer with that
\* path and content and makes it current; FileOpened(Err(e)) leaves files and
\* current as they were and sets error to e.
C8_FileOpened ==
    [][ last'.msg \in {"FileOpened(Ok)", "FileOpened(Err)"} =>
        \A k \in TaskIndices : \A r \in pick_file :
          /\ FileOpenedOk(k, r)
                => /\ Pushed([path |-> r.path, content |-> r.content,
                              is_modified |-> FALSE])
                   /\ r.path \in Paths
                   /\ current' = Len(files)
          /\ FileOpenedErr(k, r)
                => /\ files' = files
                   /\ current' = current
                   /\ r.error \in Error
                   /\ error' = r.error ]_vars

\* A read has failed with several buffers open: nothing was added.
C8_Witness ==
    /\ last.msg = "FileOpened(Err)"
    /\ error = IOFailed
    /\ last.len = 2
    /\ Len(files) = 2
    /\ current = last.cur

\* C9: Edit(action) sets is_modified of the current buffer to its old value
\* or-ed with "the action is an edit", clears the error, and leaves the other
\* buffers, the current buffer's path and current as they were.
C9_EditMarksModified ==
    [][ last'.msg \in {"Edit", "Edit(move)"} =>
        \A action \in Actions :
          Edit(action)
            => /\ Len(files') = Len(files)
               /\ \A j \in 1..Len(files) : j # current + 1 => files'[j] = files[j]
               /\ files'[current + 1].path = files[current + 1].path
               /\ files'[current + 1].is_modified =
                    (files[current + 1].is_modified
                        \/ action \in {"Insert", "Backspace"})
               /\ action = "Move" =>
                    files'[current + 1].content = files[current + 1].content
               /\ error' = None
               /\ current' = current ]_vars

\* A cursor movement has been handled in an unmodified buffer, which is
\* still unmodified.
C9_Witness ==
    /\ last.msg = "Edit(move)"
    /\ Len(files) >= 2
    /\ ~files[current + 1].is_modified
    /\ files[current + 1].path # None

\* C10: when FileSaved answers the Save or SaveAs handled just before it, on
\* success the current buffer is unmodified and has the path written; when
\* the dialog is cancelled or the write fails, files and current are as they
\* were and error holds the failure.
C10_SaveThenCompletion ==
    [][ last'.msg \in {"FileSaved(Ok)", "FileSaved(Err)"} =>
        \A k \in TaskIndices :
        \A r \in save_file(tasks[k + 1].path, tasks[k + 1].text) :
          Direct(k) =>
            /\ FileSavedOk(k, r)
                => /\ current' = last.cur
                   /\ Len(r.wrote) = 1
                   /\ r.wrote[1].text = files[last.cur + 1].content
                   /\ files'[last.cur + 1].path = r.wrote[1].path
                   /\ ~files'[last.cur + 1].is_modified
                   /\ last.msg = "Save" /\ files[last.cur + 1].path # None
                        => r.wrote[1].path = files[last.cur + 1].path
            /\ FileSavedErr(k, r)
                => /\ files' = files
                   /\ current' = current
                   /\ r.wrote = <<>>
                   /\ error' = r.error
                   /\ r.error \in Error ]_vars

\* A Save of a modified buffer without a path has been answered at once by a
\* successful write.
C10_Witness ==
    /\ last.msg = "FileSaved(Ok)"
    /\ last.direct
    /\ Len(files) >= 2
    /\ files[current + 1].path # None
    /\ ~files[current + 1].is_modified
    /\ \E j \in 1..Len(files) : files[j].path = None /\ files[j].is_modified

\* The keys theme_to_key writes for the themes of THEMES.
ThemeKeys == {theme_to_key(THEMES[i]) : i \in 1..Len(THEMES)}

\* C11: the theme registry round-trips. Once a selected theme has been
\* written as its key, reading that key back gives the selected theme, for
\* each of the 21 themes of THEMES; and a valid file whose theme key is none
\* of the keys written for a theme reads as the one default theme.
C11_ThemeKeyRoundTrip ==
    /\ (last.msg = "SelectTheme" /\ persisted.set)
         => /\ config_file.theme = theme_to_key(theme)
            /\ key_to_theme(config_file.theme) = theme
    /\ (config_file.state = "valid" /\ config_file.theme \notin ThemeKeys)
         => key_to_theme(config_file.theme) = "Light"

\* C12: missing and unknown settings fall back to the same defaults. A
\* session started with no settings loaded has the theme key_to_theme gives
\* for an unrecognised key and the syntax theme key_to_syntax_theme gives for
\* an unrecognised key.
C12_DefaultsAgree ==
    (last.msg = "Start" /\ proc = "up" /\ ~CONFIG(config_file).some)
        => /\ theme = key_to_theme("theme.none")
           /\ highlighter_theme = key_to_syntax_theme("syntax.none")

\* C13: theme selections persist across runs. Every selection whose write
\* succeeds leaves a file carrying the keys of both current themes, and a
\* start that reads the file of the last successful selection has the themes
\* selected last.
C13_SelectionsPersist ==
    /\ (last.msg \in {"SelectTheme", "SelectSyntaxTheme"} /\ persisted.set)
         => config_file = ConfigFile("valid", theme_to_key(theme),
                                     syntax_theme_to_key(highlighter_theme))
    /\ (last.msg = "Start" /\ proc = "up" /\ persisted.set)
         => /\ theme = persisted.theme
            /\ highlighter_theme = persisted.syntax

\* C14: loading the settings is never fatal. Whatever the configuration file
\* is at startup (absent, valid, unparsable, unreadable), the start leaves a
\* running process, with the parsed settings or with the defaults.
C14_LoadNeverFatal ==
    /\ proc # "panicked"
    /\ (last.msg = "Start")
         => /\ proc = "up"
            /\ theme = Editor_new(CONFIG(config_file)).theme
            /\ highlighter_theme = Editor_new(CONFIG(config_file)).syntax

\* C15 as stated: Close with current = 0 and more than one buffer sets
\* current to the old length minus 2, removes the old first buffer, and the
\* buffer current afterwards is the one that was second-to-last (at index old
\* length - 2) before.
C15_CloseFirstFocusSecondToLast ==
    [][ (last'.msg = "Close" /\ current = 0 /\ Len(files) > 1)
        => /\ current' = Len(files) - 2
           /\ Dropped(0)
           /\ files'[current' + 1] = files[Len(files) - 1] ]_vars

\* C15, amended: Close with current = 0 and more than one buffer sets
\* current to the old length minus 2, removes the old first buffer, and the
\* buffer current afterwards is the one that was last (at index old
\* length - 1) before.
C15_CloseFirstFocusLast ==
    [][ (last'.msg = "Close" /\ current = 0 /\ Len(files) > 1)
        => /\ current' = Len(files) - 2
           /\ Dropped(0)
           /\ current' = Len(files') - 1
           /\ files'[current' + 1] = files[Len(files)] ]_vars

\* The first of three buffers has been closed; the focus is on the former
\* last buffer, which differs from the former second-to-last.
C15_Witness ==
    /\ last.msg = "Close"
    /\ last.cur = 0
    /\ last.len = 3
    /\ current = 1
    /\ Len(files) = 2
    /\ files[1] # files[2]

\* C16: the modified flag follows unsaved edits under every interleaving.
\* When FileSaved(Ok) arrives right after an edit that changed the current
\* buffer, whose content is therefore not the text written, the buffer stays
\* marked modified.
C16_EditDuringSaveStaysModified ==
    [][ last'.msg = "FileSaved(Ok)" =>
        \A k \in TaskIndices :
        \A r \in save_file(tasks[k + 1].path, tasks[k + 1].text) :
          (/\ FileSavedOk(k, r)
           /\ last.msg = "Edit"
           /\ files[current + 1].content # r.wrote[1].text)
            => files'[current + 1].is_modified ]_vars

\* C17: FileSaved(Ok(p)) is bound to the index current on arrival and to
\* nothing else. The buffer current then gets the path p and is_modified
\* false, keeping its content whatever text was written; every other buffer,
\* the one the Save was dispatched on included, and current stay as they were.
C17_SaveResultHitsCurrent ==
    [][ last'.msg = "FileSaved(Ok)" =>
        \A k \in TaskIndices :
        \A r \in save_file(tasks[k + 1].path, tasks[k + 1].text) :
          FileSavedOk(k, r)
            => /\ current' = current
               /\ Len(files') = Len(files)
               /\ \A j \in 1..Len(files) : j # current + 1 => files'[j] = files[j]
               /\ files'[current + 1] =
                    [path |-> r.path, content |-> files[current + 1].content,
                     is_modified |-> FALSE]
               /\ r.wrote[1].text = tasks[k + 1].text ]_vars

\* A Save of the first buffer was answered after New: the new buffer, empty
\* and never edited, has the path and is unmodified, and the first buffer is
\* still without a path and modified.
C17_Witness ==
    /\ last.msg = "FileSaved(Ok)"
    /\ ~last.direct
    /\ Len(files) = 2
    /\ current = 1
    /\ files[1] = File_sample
    /\ files[2].path # None
    /\ files[2].content = <<>>
    /\ ~files[2].is_modified

\* C18: FileOpened(Err(e)) and FileSaved(Err(e)) set error to e whatever the
\* error was before, and leave files and current as they were.
C18_LastErrorReplaces ==
    [][ last'.msg \in {"FileOpened(Err)", "FileSaved(Err)"} =>
        \A k \in TaskIndices :
          /\ \A r \in pick_file :
               FileOpenedErr(k, r)
                 => error' = r.error /\ r.error \in Error
                      /\ files' = files /\ current' = current
          /\ \A r \in save_file(tasks[k + 1].path, tasks[k + 1].text) :
               FileSavedErr(k, r)
                 => error' = r.error /\ r.error \in Error
                      /\ files' = files /\ current' = current ]_vars

\* A cancelled save dialog has replaced a displayed IOFailed.
C18_Witness ==
    /\ last.msg = "FileSaved(Err)"
    /\ last.err = IOFailed
    /\ error = DialogClosed

\* C19: Save hands save_file the current buffer's path and content, SaveAs no
\* path and the content. A save with a path shows no dialog, writes to that
\* path if it writes, and never ends in DialogClosed; a save without one
\* shows the dialog, and a cancelled dialog writes nothing. What is written
\* is the text captured at dispatch.
C19_SaveDialogAndText ==
    [][ /\ last'.msg = "Save"
            => tasks' = Append(tasks, SaveTask(files[current + 1].path,
                                               files[current + 1].content))
        /\ last'.msg = "SaveAs"
            => tasks' = Append(tasks, SaveTask(None, files[current + 1].content))
        /\ last'.msg \in {"FileSaved(Ok)", "FileSaved(Err)"} =>
            \A k \in TaskIndices :
            \A r \in save_file(tasks[k + 1].path, tasks[k + 1].text) :
              (FileSavedOk(k, r) \/ FileSavedErr(k, r))
                => /\ r.dialog = (tasks[k + 1].path = None)
                   /\ ~r.dialog => /\ r.error # DialogClosed
                                   /\ r.ok => r.path = tasks[k + 1].path
                   /\ r.error = DialogClosed => r.dialog /\ r.wrote = <<>>
                   /\ r.ok => r.wrote = <<[path |-> r.path, text |-> tasks[k + 1].text]>>
                   /\ ~r.ok => r.wrote = <<>> ]_vars

\* A SaveAs of a buffer that has a path was cancelled in the dialog.
C19_Witness ==
    /\ last.msg = "FileSaved(Err)"
    /\ last.direct
    /\ error = DialogClosed
    /\ files[current + 1].path # None

\* One pass over a string, left to right: a tab becomes four spaces, a CR LF
\* pair one LF, a CR alone one LF, any other character itself.
RECURSIVE Normalised(_)
Normalised(string) ==
    IF string = <<>> THEN <<>>
    ELSE IF Head(string) = TAB THEN <<SP, SP, SP, SP>> \o Normalised(Tail(string))
    ELSE IF Head(string) = CR /\ Len(string) >= 2 /\ string[2] = LF
         THEN <<LF>> \o Normalised(Tail(Tail(string)))
    ELSE IF Head(string) = CR THEN <<LF>> \o Normalised(Tail(string))
    ELSE <<Head(string)>> \o Normalised(Tail(string))

\* C20: for every input string, the result of verify_content has no tab and
\* no carriage return, and is the input with each tab turned into four
\* spaces, each CR LF pair into one LF and each lone CR into one LF, the other
\* characters kept in order; applying verify_content again changes nothing.
C20_VerifyContent ==
    /\ \A i \in 1..Len(outs) : \A j \in 1..Len(outs[i]) : outs[i][j] \notin {TAB, CR}
    /\ Len(outs) >= 1 => outs[1] = Normalised(raw)
    /\ \A i \in 2..Len(outs) : outs[i] = outs[1]

\* A CR LF pair followed by a tab has been normalised, twice.
C20_Witness ==
    /\ raw = <<CR, LF, TAB>>
    /\ Len(outs) = 2
    /\ outs[1] = <<LF, SP, SP, SP, SP>>
    /\ outs[2] = outs[1]

\* C21: SelectFile(i) sets current to i without looking at the number of
\* buffers and changes nothing else: the buffers, the error and the futures
\* in flight are as before; with i past the end, current is out of bounds.
C21_SelectFileUnchecked ==
    [][ last'.msg = "SelectFile"
        => /\ current' = last'.index
           /\ files' = files
           /\ error' = error
           /\ tasks' = tasks
           /\ last'.index >= Len(files) => ~(current' < Len(files')) ]_vars

\* SelectFile has been handled with an index past the last buffer, an error
\* being shown: current is out of bounds.
C21_Witness ==
    /\ last.msg = "SelectFile"
    /\ last.index >= Len(files)
    /\ current = last.index
    /\ last.cur < last.len
    /\ error # None

\* The keys syntax_theme_to_key writes for the five syntax themes.
SyntaxKeys == {syntax_theme_to_key(SyntaxThemes[i]) : i \in 1..Len(SyntaxThemes)}

\* C22: the syntax theme registry round-trips. Once a syntax theme has been
\* written as its key, reading that key back gives that theme, for each of
\* the five; a key that is none of the five reads as Base16Eighties; and the
\* two key spaces are disjoint: the UI key written is no syntax key and reads
\* as the default syntax theme, the syntax key written is no UI key and reads
\* as the default UI theme.
C22_SyntaxKeyRoundTrip ==
    /\ (last.msg \in {"SelectTheme", "SelectSyntaxTheme"} /\ persisted.set)
         => /\ config_file.syntax_theme = syntax_theme_to_key(highlighter_theme)
            /\ key_to_syntax_theme(config_file.syntax_theme) = highlighter_theme
            /\ config_file.theme \in ThemeKeys \ SyntaxKeys
            /\ config_file.syntax_theme \in SyntaxKeys \ ThemeKeys
            /\ key_to_syntax_theme(config_file.theme) = "Base16Eighties"
            /\ key_to_theme(config_file.syntax_theme) = "Light"
    /\ (last.msg = "Start" /\ proc = "up" /\ persisted.set)
         => highlighter_theme = persisted.syntax
    /\ (config_file.state = "valid" /\ config_file.syntax_theme \notin SyntaxKeys)
         => key_to_syntax_theme(config_file.syntax_theme) = "Base16Eighties"

\* The program has been started again after Base16Mocha was selected and
\* written: it has that syntax theme.
C22_Witness ==
    /\ last.msg = "Start"
    /\ proc = "up"
    /\ persisted.set
    /\ persisted.syntax = "Base16Mocha"
    /\ highlighter_theme = "Base16Mocha"
    /\ config_file.syntax_theme = "syntax.base16.mocha"

\* C23: a completed Open touches no existing buffer, whatever was handled
\* since Open was dispatched. FileOpened(Ok) leaves every buffer present just
\* before it as it was (path, content, is_modified) and at its index, adds
\* one buffer at the end and makes it current.
C23_OpenOnlyAppends ==
    [][ last'.msg = "FileOpened(Ok)"
        => /\ Len(files') = Len(files) + 1
           /\ \A j \in 1..Len(files) : files'[j] = files[j]
           /\ current' = Len(files') - 1
           /\ files'[Len(files')].path \in Paths ]_vars

\* Open was dispatched with one buffer; New and SelectFile(0) were handled
\* before the file arrived as the third buffer, behind the two untouched ones.
C23_Witness ==
    /\ last.msg = "FileOpened(Ok)"
    /\ ~last.direct
    /\ last.len = 2
    /\ last.cur = 0
    /\ Len(files) = 3
    /\ current = 2
    /\ files[1] = File_sample
    /\ files[2] = File_empty
    /\ files[3].path # None

\* files' has the length of files and differs from it at most in the current
\* buffer.
OnlyCurrentChanged ==
    /\ Len(files') = Len(files)
    /\ \A j \in 1..Len(files) : j # current + 1 => files'[j] = files[j]

\* C24: the tab order is stable. Every step leaves the buffers as they are,
\* or adds one at the end (New, FileOpened), or removes one and keeps the
\* others in their order (Close, CloseIndex with several buffers), or puts an
\* empty buffer in the place of the only one (Close, CloseIndex of the sole
\* buffer), or changes the current buffer where it stands: Edit its content
\* and flag, FileSaved(Ok) its path and flag.
C24_TabOrderStable ==
    [][ \/ files' = files
        \/ /\ last'.msg \in {"New", "FileOpened(Ok)"}
           /\ Len(files') = Len(files) + 1
           /\ \A j \in 1..Len(files) : files'[j] = files[j]
        \/ /\ last'.msg \in {"Close", "CloseIndex"}
           /\ Len(files) > 1
           /\ \E i \in 0..(Len(files) - 1) : Dropped(i)
        \/ /\ last'.msg \in {"Close", "CloseIndex"}
           /\ Len(files) = 1
           /\ files' = <<[path |-> None, content |-> <<>>, is_modified |-> FALSE]>>
        \/ /\ last'.msg = "Edit"
           /\ OnlyCurrentChanged
           /\ files'[current + 1].path = files[current + 1].path
        \/ /\ last'.msg = "FileSaved(Ok)"
           /\ OnlyCurrentChanged
           /\ files'[current + 1].content = files[current + 1].content ]_vars

\* The first of three different buffers has been closed through its tab: the
\* empty buffer and the opened file follow each other as before.
C24_Witness ==
    /\ last.msg = "CloseIndex"
    /\ last.index = 0
    /\ last.len = 3
    /\ Len(files) = 2
    /\ files[1] = File_empty
    /\ files[2].path # None

\* C25: a recorded error is cleared only by Edit. While an error is set,
\* New, SelectFile, Close, CloseIndex, FileOpened(Ok), FileSaved(Ok) and the
\* dispatch of Open, Save and SaveAs leave it as it is; only an Edit message
\* clears it, and only another failure replaces it.
C25_ErrorClearedOnlyByEdit ==
    [][ error # None
        => /\ last'.msg \in {"New", "SelectFile", "Close", "CloseIndex",
                             "FileOpened(Ok)", "FileSaved(Ok)",
                             "Open", "Save", "SaveAs"}
                => error' = error
           /\ error' = None => last'.msg \in {"Edit", "Edit(move)"}
           /\ last'.msg \in {"Edit", "Edit(move)"} => error' = None
           /\ (error' # None /\ error' # error)
                => last'.msg \in {"FileOpened(Err)", "FileSaved(Err)"} ]_vars

\* A failed write is still shown after a later save has succeeded.
C25_Witness ==
    /\ last.msg = "FileSaved(Ok)"
    /\ last.err = IOFailed
    /\ error = IOFailed
    /\ ~files[current + 1].is_modified

====
